---- MODULE Spec2Model ----
(***************************************************************************)
(* Marzban -> Pasarguard migration.                                        *)
(*                                                                         *)
(* Two scripts are modelled:                                               *)
(*   marz-go-pasarguard.py  the menu script; choice 2 runs                 *)
(*                          migrate_marzban_to_pasarguard (variant "main") *)
(*   migration_utils.py     a library of the same migrators for MySQL,     *)
(*                          with no driver of its own: its functions are   *)
(*                          called in any order (variant "utils")          *)
(*                                                                         *)
(* A database is a record of tables; a table is a function from primary    *)
(* key to the row's non-key columns, and `tables` is the set of tables     *)
(* that exist.  `tgt` is the committed content of the target, `work` what  *)
(* the open target connection sees (committed content plus the statements  *)
(* of the current transaction).  NOW() is the number of the run (main) or  *)
(* of the call (utils).                                                    *)
(***************************************************************************)
EXTENDS Integers, Sequences, FiniteSets, TLC

VARIABLES
    variant,    \* "main" | "utils": which script this behaviour executes
    pc,         \* main: next statement of the menu / orchestrator; utils: "lib"
    run,        \* number of migration runs started from the menu
    src,        \* source (Marzban) database
    tgt,        \* target (Pasarguard) database, committed content
    work,       \* target database as seen by pasarguard_conn
    tz,         \* time zone of the host the script runs on, seconds east of UTC
    xrayFile,   \* /var/lib/marzban/xray_config.json: "missing", "badjson" or a document
    xray,       \* xray_config local of the run (NoDoc until read)
    srcCfg,     \* marzban_config local (NoCfg when not loaded)
    tgtCfg,     \* pasarguard_config local
    identical,  \* history: the descriptors loaded in this run name the same database
    conns,      \* connections currently open
    summary,    \* migration_summary dict
    printed,    \* the "=== Migration Summary ===" block was printed in this run
    stmts,      \* kinds of statements issued on the target in this run
    trace,      \* functions called so far in this run (utils: in this behaviour)
    last,       \* the last function called and how it ended
    pre,        \* committed target content when the last function was called
    result,     \* return value of the last finished run
    hist        \* one record per finished run

vars == <<variant, pc, run, src, tgt, work, tz, xrayFile, xray, srcCfg, tgtCfg, identical,
          conns, summary, printed, stmts, trace, last, pre, result, hist>>

-----------------------------------------------------------------------------
(* Bounds *)

MaxId == 2       \* source and target rows have ids 1..MaxId
MaxRuns == 2     \* runs of menu choice 2 in one behaviour
MaxCalls == 2    \* calls of migration_utils functions in one behaviour

(* Program constants *)

BackupOffset == 1000     \* existing["id"] + 1000
UtilsEmptyMax == 1000    \* cur.fetchone()["max_id"] or 1000

-----------------------------------------------------------------------------
(* Python values read from / written to columns *)

PyNone == [t |-> "None"]
PyStr(s) == [t |-> "str", s |-> s]
PyInt(n) == [t |-> "int", n |-> n]

\* str.isspace() for one character
IsSpace(c) == c \in {" ", "\t", "\n"}

RECURSIVE LStrip(_)
LStrip(s) == IF s # <<>> /\ IsSpace(Head(s)) THEN LStrip(Tail(s)) ELSE s

RECURSIVE RStrip(_)
RStrip(s) ==
    IF s # <<>> /\ IsSpace(s[Len(s)]) THEN RStrip(SubSeq(s, 1, Len(s) - 1)) ELSE s

\* str.strip()
Strip(s) == RStrip(LStrip(s))

LowerChar(c) ==
    CASE c = "N" -> "n" [] c = "O" -> "o" [] c = "E" -> "e"
      [] c = "U" -> "u" [] c = "L" -> "l" [] c = "H" -> "h"
      [] OTHER -> c

\* str.lower()
Lower(s) == [k \in 1..Len(s) |-> LowerChar(s[k])]

\* str(value) for the values a TEXT column yields
Str(value) == IF value = PyNone THEN <<"N", "o", "n", "e">> ELSE value.s

\* `not value`
Falsy(value) == value = PyNone \/ value = PyStr(<<>>) \/ value = PyInt(0)

AlpnNulls == {<<"n", "o", "n", "e">>, <<"n", "u", "l", "l">>, <<>>}

\* mutant: only the exact texts none, null and the empty text give None
safe_alpn_exact(value) ==
    IF Falsy(value) \/ Str(value) \in AlpnNulls THEN PyNone ELSE PyStr(Str(value))

\* marz-go-pasarguard.py safe_alpn
safe_alpn(value) ==
    IF Falsy(value) \/ Lower(Strip(Str(value))) \in AlpnNulls
    THEN PyNone
    ELSE PyStr(Strip(Str(value)))

\* texts json.loads accepts, among the texts of the model
JsonTexts == {<<"{", "}">>, <<"[", "]">>, <<"n", "u", "l", "l">>}

\* json.loads(text) does not raise
JsonLoads(s) == s \in JsonTexts

\* values that are not str: an empty dict, an empty list, a bytes object
EmptyDict == [t |-> "dict"]
EmptyList == [t |-> "list"]
SomeBytes == [t |-> "bytes"]

\* json.dumps(value) of such a value: bytes are not JSON serializable (TypeError)
json_dumps(value) ==
    CASE value.t = "dict" -> [raised |-> FALSE, s |-> <<"{", "}">>]
      [] value.t = "list" -> [raised |-> FALSE, s |-> <<"[", "]">>]
      [] OTHER -> [raised |-> TRUE, s |-> <<>>]

\* mutant: a str is returned without json.loads
safe_json_unchecked(value) ==
    IF value = PyNone \/ value = PyStr(<<>>) THEN PyNone
    ELSE IF value.t = "str" THEN value
    ELSE IF json_dumps(value).raised THEN PyNone ELSE PyStr(json_dumps(value).s)

\* marz-go-pasarguard.py safe_json
safe_json(value) ==
    IF value = PyNone \/ value = PyStr(<<>>) THEN PyNone
    ELSE IF value.t = "str" THEN (IF JsonLoads(value.s) THEN value ELSE PyNone)
    ELSE IF json_dumps(value).raised THEN PyNone ELSE PyStr(json_dumps(value).s)

\* json.dumps(document): the text of a document, distinct from the document
JsonDumps(doc) == [json |-> doc]

-----------------------------------------------------------------------------
(* Databases *)

NoRows == [i \in {} |-> PyNone]

Ids == 1..MaxId
Prefixes == {1..n : n \in 0..MaxId}

EmptyTarget ==
    [tables |-> {}, admins |-> NoRows, groups |-> NoRows, core_configs |-> NoRows,
     inbounds |-> NoRows, inbounds_groups_association |-> {}, hosts |-> NoRows,
     nodes |-> NoRows, users |-> NoRows]

\* mutant: the table is emptied and refilled with the incoming rows
ReplaceAll(rows, incoming) == incoming

\* INSERT ... ON DUPLICATE KEY UPDATE / ON CONFLICT (id) DO UPDATE of every source
\* row: get_upsert_sql updates every non-key column to the incoming value
UpsertAll(rows, incoming) ==
    [i \in DOMAIN rows \cup DOMAIN incoming |->
        IF i \in DOMAIN incoming THEN incoming[i] ELSE rows[i]]

\* INSERT IGNORE of every source row: an existing row is kept as it is
InsertIgnoreAll(rows, incoming) ==
    [i \in DOMAIN rows \cup DOMAIN incoming |->
        IF i \in DOMAIN rows THEN rows[i] ELSE incoming[i]]

\* INSERT of one row whose key is not in the table
InsertRow(rows, id, row) ==
    [i \in DOMAIN rows \cup {id} |-> IF i = id THEN row ELSE rows[i]]

Min(S) == CHOOSE x \in S : \A y \in S : x <= y

Max(S) == CHOOSE x \in S : \A y \in S : x >= y

\* the keys of a result set in the order fetchall() yields them
RECURSIVE SeqOf(_)
SeqOf(S) == IF S = {} THEN <<>> ELSE <<Min(S)>> \o SeqOf(S \ {Min(S)})

\* CREATE TABLE when get_table_exists_sql finds no table
CreateTable(db, t) == [db EXCEPT !.tables = @ \cup {t}]

CreateStmt(db, t) == IF t \in db.tables THEN {} ELSE {"CREATE TABLE"}

WriteStmt(rows, kind) == IF DOMAIN rows = {} THEN {} ELSE {kind}

\* a function that ran to its commit
Ok(db, ret, st) ==
    [raised |-> FALSE, db |-> db, ret |-> ret, stmts |-> st \cup {"COMMIT"}, backup |-> 0]

\* a function left by an exception: db holds the uncommitted statements
Raise(db, st) == [raised |-> TRUE, db |-> db, ret |-> 0, stmts |-> st, backup |-> 0]

-----------------------------------------------------------------------------
(* Source rows.  The content of a source row is a function of its table   *)
(* and id; which ids exist and which table is missing is chosen in Init.   *)

SrcAdmin(i) == [username |-> <<"admin", i>>, hashed_password |-> "src", is_sudo |-> (i = 1)]

SrcInbound(i) == [tag |-> <<"in", i>>]

SrcAlpn(i) ==
    CASE i = 1 -> PyStr(<<"N", "U", "L", "L", " ">>)
      [] i = 2 -> PyStr(<<"h", "2">>)
      [] OTHER -> PyNone

SrcSettings(i) ==
    CASE i = 1 -> PyStr(<<"{", "}">>)
      [] i = 2 -> PyStr(<<"n", "o">>)
      [] OTHER -> PyNone

SrcHost(i) ==
    [remark |-> "src", inbound_tag |-> <<"in", i>>, alpn |-> SrcAlpn(i),
     transport_settings |-> SrcSettings(i)]

SrcNode(i) == [name |-> <<"node", i>>, status |-> "src", core_config_id |-> i + 1]

SrcExpire(i) ==
    CASE i = 1 -> PyInt(1700000000)
      [] i = 2 -> PyStr(<<"g", "a", "r", "b", "a", "g", "e">>)
      [] OTHER -> PyNone

SrcUser(i) == [username |-> <<"user", i>>, status |-> "src", used_traffic |-> PyNone,
               admin_id |-> 1, expire |-> SrcExpire(i)]

\* proxies rows 3i-2 .. 3i belong to user i
SrcProxy(k) ==
    [user_id |-> (k + 2) \div 3,
     type |-> CASE k = 1 -> "VMess" [] k = 2 -> "HTTP" [] k = 3 -> "vmess"
                [] k = 4 -> "trojan" [] k = 6 -> "Shadowsocks" [] OTHER -> "VLESS",
     settings |-> CASE k = 1 -> "{id:A}" [] k = 2 -> "{id:B}" [] k = 3 -> "{id:B}"
                    [] k = 4 -> "garbage" [] k = 6 -> "{id:A}"
                    [] OTHER -> "{id:C,flow:f}"]

SourceDB(ids, missing) ==
    [tables |-> {"admins", "inbounds", "hosts", "nodes", "users", "proxies"} \ missing,
     admins |-> IF "admins" \in missing THEN NoRows ELSE [i \in ids |-> SrcAdmin(i)],
     inbounds |-> IF "inbounds" \in missing THEN NoRows ELSE [i \in ids |-> SrcInbound(i)],
     hosts |-> IF "hosts" \in missing THEN NoRows ELSE [i \in ids |-> SrcHost(i)],
     nodes |-> IF "nodes" \in missing THEN NoRows ELSE [i \in ids |-> SrcNode(i)],
     users |-> IF "users" \in missing THEN NoRows ELSE [i \in ids |-> SrcUser(i)],
     proxies |-> IF "proxies" \in missing THEN NoRows
                 ELSE [k \in UNION {{3 * i - 2, 3 * i - 1, 3 * i} : i \in ids} |-> SrcProxy(k)]]

-----------------------------------------------------------------------------
(* marz-go-pasarguard.py: the migrators.  Each takes the source database  *)
(* and the target as the connection sees it and yields Ok or Raise.        *)

\* the value tuple migrate_admins builds from a source row
AdminValues(a) == a

migrate_admins(s, w) ==
    IF "admins" \notin s.tables THEN Raise(w, {})
    ELSE LET incoming == [i \in DOMAIN s.admins |-> AdminValues(s.admins[i])]
             w1 == CreateTable(w, "admins")
         IN Ok([w1 EXCEPT !.admins = UpsertAll(@, incoming)],
               Cardinality(DOMAIN s.admins),
               CreateStmt(w, "admins") \cup WriteStmt(incoming, "UPSERT"))

DefaultGroup == [name |-> "DefaultGroup", is_disabled |-> FALSE]

\* mutant: the default row is written without looking for id = 1
ensure_default_group_overwrite(w) ==
    LET w1 == CreateTable(w, "groups")
    IN Ok([w1 EXCEPT !.groups = UpsertAll(@, [i \in {1} |-> DefaultGroup])], 0,
          CreateStmt(w, "groups") \cup {"INSERT"})

ensure_default_group(w) ==
    LET w1 == CreateTable(w, "groups")
        absent == 1 \notin DOMAIN w1.groups
    IN Ok(IF absent THEN [w1 EXCEPT !.groups = InsertRow(@, 1, DefaultGroup)] ELSE w1,
          0,
          CreateStmt(w, "groups") \cup (IF absent THEN {"INSERT"} ELSE {}))

\* the cfg dict of ensure_default_core_config
DefaultCoreConfig ==
    [inbounds |-> <<"Shadowsocks TCP">>,
     outbounds |-> <<"freedom", "blackhole">>,
     rules |-> <<[ip |-> "geoip:private", outboundTag |-> "BLOCK"]>>]

CoreRow(now, name, config, excl, fb) ==
    [created_at |-> now, name |-> name, config |-> config,
     exclude_inbound_tags |-> excl, fallbacks_inbound_tags |-> fb]

ensure_default_core_config(w, now) ==
    LET w1 == CreateTable(w, "core_configs")
        absent == 1 \notin DOMAIN w1.core_configs
        row == CoreRow(now, "ASiS SK", JsonDumps(DefaultCoreConfig), "", "")
    IN Ok(IF absent THEN [w1 EXCEPT !.core_configs = InsertRow(@, 1, row)] ELSE w1,
          0,
          CreateStmt(w, "core_configs") \cup (IF absent THEN {"INSERT"} ELSE {}))

\* xray_config before it is read
NoDoc == [none |-> TRUE]

\* the legacy configuration in xray_config.json
LegacyConfig ==
    [inbounds |-> <<"VLESS TCP">>, outbounds |-> <<"freedom">>, rules |-> <<>>]

XrayFiles == {[state |-> "missing"], [state |-> "badjson"],
              [state |-> "ok", doc |-> LegacyConfig]}

\* read_xray_config: the file was found readable by check_file_access
read_xray_config(file) ==
    IF file.state = "ok"
    THEN [raised |-> FALSE, doc |-> file.doc]
    ELSE [raised |-> TRUE, doc |-> NoDoc]

\* the id migrate_xray_config stores the previous id=1 row under
BackupId(id) == id + BackupOffset

\* mutant: the archive row takes the config but not the tag columns
BackupRowWithoutTags(existing, now) ==
    CoreRow(now, "Backup_ASiS_SK", existing.config, "", "")

\* the archive row: config_data and both tag columns of the existing row
BackupRow(existing, now) ==
    CoreRow(now, "Backup_ASiS_SK", existing.config,
            existing.exclude_inbound_tags, existing.fallbacks_inbound_tags)

\* mutant: an UPDATE ... WHERE id = 1 in place of the upsert
UpdateActiveOnly(rows, now, config) ==
    IF 1 \in DOMAIN rows
    THEN [rows EXCEPT ![1] = [@ EXCEPT !.name = "ASiS SK", !.config = config,
                                       !.created_at = now]]
    ELSE rows

\* INSERT ... VALUES (1, NOW(), 'ASiS SK', config, '', '')
\* ON DUPLICATE KEY UPDATE name, config, created_at
UpsertActive(rows, now, config) ==
    IF 1 \in DOMAIN rows
    THEN [rows EXCEPT ![1] = [@ EXCEPT !.name = "ASiS SK", !.config = config,
                                       !.created_at = now]]
    ELSE InsertRow(rows, 1, CoreRow(now, "ASiS SK", config, "", ""))

migrate_xray_config(w, xray_config, now) ==
    IF "core_configs" \notin w.tables THEN Raise(w, {})
    ELSE LET existing == 1 \in DOMAIN w.core_configs
             bid == BackupId(1)
         IN IF existing /\ bid \in DOMAIN w.core_configs
            THEN [Raise(w, {"INSERT"}) EXCEPT !.backup = bid]
            ELSE LET w1 == IF existing
                           THEN [w EXCEPT !.core_configs =
                                     InsertRow(@, bid, BackupRow(w.core_configs[1], now))]
                           ELSE w
                 IN [Ok([w1 EXCEPT !.core_configs =
                             UpsertActive(@, now, JsonDumps(xray_config))],
                        1,
                        (IF existing THEN {"INSERT"} ELSE {}) \cup {"UPSERT"})
                     EXCEPT !.backup = IF existing THEN bid ELSE 0]

InboundValues(i) == i

\* mutant: each listener is associated right after its own upsert
InboundStatementsInterleaved(s) ==
    LET ids == SeqOf(DOMAIN s.inbounds)
    IN [k \in 1..(2 * Len(ids)) |->
           [op |-> IF k % 2 = 1 THEN "listener" ELSE "association", id |-> ids[(k + 1) \div 2]]]

\* the statements the two `for i in inbounds` loops issue, in order
InboundStatements(s) ==
    LET ids == SeqOf(DOMAIN s.inbounds)
    IN [k \in 1..Len(ids) |-> [op |-> "listener", id |-> ids[k]]]
         \o [k \in 1..Len(ids) |-> [op |-> "association", id |-> ids[k]]]

\* one statement of the loops; ignore: INSERT IGNORE in place of the upsert
Execute(w, s, st, ignore) ==
    LET one == [i \in {st.id} |-> InboundValues(s.inbounds[i])]
    IN IF st.op = "listener"
       THEN [w EXCEPT !.inbounds = IF ignore THEN InsertIgnoreAll(@, one)
                                   ELSE UpsertAll(@, one)]
       ELSE [w EXCEPT !.inbounds_groups_association = @ \cup {<<st.id, 1>>}]

RECURSIVE ExecuteAll(_, _, _, _)
ExecuteAll(w, s, sts, ignore) ==
    IF sts = <<>> THEN w
    ELSE ExecuteAll(Execute(w, s, Head(sts), ignore), s, Tail(sts), ignore)

migrate_inbounds_and_associate(s, w) ==
    IF "inbounds" \notin s.tables THEN Raise(w, {})
    ELSE LET incoming == [i \in DOMAIN s.inbounds |-> InboundValues(s.inbounds[i])]
             w1 == CreateTable(CreateTable(w, "inbounds"), "inbounds_groups_association")
             w3 == ExecuteAll(w1, s, InboundStatements(s), FALSE)
         IN Ok(w3, Cardinality(DOMAIN s.inbounds),
               CreateStmt(w, "inbounds") \cup CreateStmt(w, "inbounds_groups_association")
                 \cup WriteStmt(incoming, "UPSERT") \cup WriteStmt(incoming, "INSERT"))

HostValues(h) ==
    [h EXCEPT !.alpn = safe_alpn(h.alpn),
              !.transport_settings = safe_json(h.transport_settings)]

migrate_hosts(s, w) ==
    IF "hosts" \notin s.tables THEN Raise(w, {})
    ELSE LET incoming == [i \in DOMAIN s.hosts |-> HostValues(s.hosts[i])]
             w1 == CreateTable(w, "hosts")
         IN Ok([w1 EXCEPT !.hosts = UpsertAll(@, incoming)],
               Cardinality(DOMAIN s.hosts),
               CreateStmt(w, "hosts") \cup WriteStmt(incoming, "UPSERT"))

\* mutant: the node keeps the core_config_id of the source row
NodeValuesKeepCore(n) == n

\* core_config_id and gather_logs are the literals 1 and True
NodeValues(n) == [n EXCEPT !.core_config_id = 1]

migrate_nodes(s, w) ==
    IF "nodes" \notin s.tables THEN Raise(w, {})
    ELSE LET incoming == [i \in DOMAIN s.nodes |-> NodeValues(s.nodes[i])]
             w1 == CreateTable(w, "nodes")
         IN Ok([w1 EXCEPT !.nodes = UpsertAll(@, incoming)],
               Cardinality(DOMAIN s.nodes),
               CreateStmt(w, "nodes") \cup WriteStmt(incoming, "UPSERT"))

Protocols == {"vmess", "vless", "trojan", "shadowsocks"}

\* p["type"].lower()
LowerType(t) ==
    CASE t = "VMess" -> "vmess" [] t = "VLESS" -> "vless" [] t = "HTTP" -> "http"
      [] t = "Shadowsocks" -> "shadowsocks" [] OTHER -> t

\* json.loads(p["settings"])
\* ok: the text parses; obj: what it parses to is a dict, the only value with .get
ParseSettings(text) ==
    CASE text = "{id:A}" -> [ok |-> TRUE, obj |-> TRUE, d |-> ("id" :> "A")]
      [] text = "{id:B}" -> [ok |-> TRUE, obj |-> TRUE, d |-> ("id" :> "B")]
      [] text = "{id:C,flow:f}" ->
             [ok |-> TRUE, obj |-> TRUE, d |-> ("id" :> "C" @@ "flow" :> "f")]
      [] text = "null" -> [ok |-> TRUE, obj |-> FALSE, d |-> ("id" :> "None")]
      [] OTHER -> [ok |-> FALSE, obj |-> FALSE, d |-> ("id" :> "None")]

\* s.get(...) in a branch of the if/elif chain, which no try encloses, raises
\* AttributeError when s is not a dict
GetRaises(p) ==
    LET parsed == ParseSettings(p.settings)
    IN parsed.ok /\ ~parsed.obj /\ LowerType(p.type) \in Protocols

\* the users whose `for p in proxies` loop raises
RaisingUsers(s) == {u \in DOMAIN s.users :
                       \E k \in DOMAIN s.proxies :
                          s.proxies[k].user_id = u /\ GetRaises(s.proxies[k])}

\* dict.get(key, default)
Get(d, k, default) == IF k \in DOMAIN d THEN d[k] ELSE default

ProxyEntry(typ, d) ==
    CASE typ = "vmess" -> ("id" :> Get(d, "id", "None"))
      [] typ = "vless" -> ("id" :> Get(d, "id", "None") @@ "flow" :> Get(d, "flow", ""))
      [] typ = "trojan" -> ("password" :> Get(d, "password", "None"))
      [] OTHER -> ("password" :> Get(d, "password", "None")
                     @@ "method" :> Get(d, "method", "None"))

\* mutant: a row of any type is stored under its lower-cased type
MergeProxyAnyType(cfg, p) ==
    LET parsed == ParseSettings(p.settings)
        typ == LowerType(p.type)
    IN IF ~parsed.ok THEN cfg
       ELSE [k \in DOMAIN cfg \cup {typ} |->
                IF k = typ THEN ProxyEntry(typ, parsed.d) ELSE cfg[k]]

\* one pass of `for p in proxies`
MergeProxy(cfg, p) ==
    LET parsed == ParseSettings(p.settings)
        typ == LowerType(p.type)
    IN IF ~parsed.ok \/ typ \notin Protocols THEN cfg
       ELSE [k \in DOMAIN cfg \cup {typ} |->
                IF k = typ THEN ProxyEntry(typ, parsed.d) ELSE cfg[k]]

\* mutant: the rows are merged last to first, so the first row of a protocol wins
RECURSIVE MergeProxiesLastFirst(_, _, _)
MergeProxiesLastFirst(cfg, rows, ks) ==
    IF ks = {} THEN cfg
    ELSE MergeProxiesLastFirst(MergeProxy(cfg, rows[Max(ks)]), rows, ks \ {Max(ks)})

RECURSIVE MergeProxies(_, _, _)
MergeProxies(cfg, rows, ks) ==
    IF ks = {} THEN cfg
    ELSE MergeProxies(MergeProxy(cfg, rows[Min(ks)]), rows, ks \ {Min(ks)})

\* SELECT * FROM proxies WHERE user_id = %s, merged in result-set order
ProxyCfg(s, uid) ==
    MergeProxies([k \in {} |-> 0], s.proxies,
                 {k \in DOMAIN s.proxies : s.proxies[k].user_id = uid})

\* datetime.datetime.fromtimestamp(n): the naive local time of the host, written
\* as the seconds its wall clock shows since 1970-01-01 00:00:00
FromTimestamp(n, zone) == [t |-> "datetime", naive |-> n + zone]

\* expire_dt: a str goes to parse_date / fromisoformat, which raise on text that
\* is no date, and the except branch leaves None
ExpireDt(e, zone) ==
    IF Falsy(e) THEN PyNone
    ELSE IF e.t = "int" THEN FromTimestamp(e.n, zone)
    ELSE PyNone

UserValues(s, uid, zone) ==
    LET u == s.users[uid]
    IN [username |-> u.username, status |-> u.status,
        used_traffic |-> IF Falsy(u.used_traffic) THEN PyInt(0) ELSE u.used_traffic,
        admin_id |-> u.admin_id, expire |-> ExpireDt(u.expire, zone),
        proxy_settings |-> JsonDumps(ProxyCfg(s, uid))]

migrate_users_and_proxies(s, w, zone) ==
    IF "users" \notin s.tables THEN Raise(w, {})
    ELSE LET w1 == CreateTable(w, "users")
         IN IF DOMAIN s.users # {} /\ "proxies" \notin s.tables
            THEN Raise(w1, CreateStmt(w, "users"))
            ELSE IF RaisingUsers(s) # {}
            THEN LET done == {i \in DOMAIN s.users : i < Min(RaisingUsers(s))}
                     incoming == [i \in done |-> UserValues(s, i, zone)]
                 IN Raise([w1 EXCEPT !.users = UpsertAll(@, incoming)],
                          CreateStmt(w, "users") \cup WriteStmt(incoming, "UPSERT"))
            ELSE LET incoming == [i \in DOMAIN s.users |-> UserValues(s, i, zone)]
                 IN Ok([w1 EXCEPT !.users = UpsertAll(@, incoming)],
                       Cardinality(DOMAIN s.users),
                       CreateStmt(w, "users") \cup WriteStmt(incoming, "UPSERT"))

-----------------------------------------------------------------------------
(* migration_utils.py: the same migrators over tables that already exist   *)

utils_ensure_default_group(w) ==
    IF "groups" \notin w.tables THEN Raise(w, {})
    ELSE LET empty == DOMAIN w.groups = {}
         IN Ok(IF empty THEN [w EXCEPT !.groups = InsertRow(@, 1, DefaultGroup)] ELSE w,
               0, IF empty THEN {"INSERT"} ELSE {})

\* migration_utils.read_xray_config: None when the file is missing or unreadable
utils_read_xray_config(file) == IF file.state = "ok" THEN file.doc ELSE NoDoc

\* SELECT MAX(id) ... or 1000, plus one
utils_backup_id(rows) ==
    (IF DOMAIN rows = {} THEN UtilsEmptyMax ELSE Max(DOMAIN rows)) + 1

utils_backup_row(existing, now) ==
    CoreRow(now, "Backup_Default_Core_Config", existing.config,
            existing.exclude_inbound_tags, existing.fallbacks_inbound_tags)

\* rejected: the server refuses the archive INSERT; the except clause around it
\* prints "Failed to create backup ... Continuing..." and the function goes on
utils_migrate_xray_config(w, file, now, rejected) ==
    LET xray_config == utils_read_xray_config(file)
    IN IF xray_config = NoDoc
       THEN [raised |-> FALSE, db |-> w, ret |-> 0, stmts |-> {}, backup |-> 0]
       ELSE IF "core_configs" \notin w.tables THEN Raise(w, {})
       ELSE LET existing == 1 \in DOMAIN w.core_configs
                bid == utils_backup_id(w.core_configs)
                w1 == IF existing /\ ~rejected /\ bid \notin DOMAIN w.core_configs
                      THEN [w EXCEPT !.core_configs =
                                InsertRow(@, bid, utils_backup_row(w.core_configs[1], now))]
                      ELSE w
            IN [Ok([w1 EXCEPT !.core_configs =
                        UpsertActive(@, now, JsonDumps(xray_config))],
                   0,
                   (IF existing THEN {"INSERT"} ELSE {}) \cup {"UPSERT"})
                EXCEPT !.backup = IF existing THEN bid ELSE 0]

\* a loop of INSERT IGNORE statements over the rows of one source table; the
\* target table is touched only when the loop runs
utils_insert_all(s, w, t, incoming) ==
    IF t \notin s.tables THEN Raise(w, {})
    ELSE IF DOMAIN incoming = {} THEN Ok(w, 0, {})
    ELSE IF t \notin w.tables THEN Raise(w, {})
    ELSE Ok([w EXCEPT ![t] = InsertIgnoreAll(@, incoming)],
            Cardinality(DOMAIN incoming), {"INSERT"})

utils_migrate_admins(s, w) ==
    utils_insert_all(s, w, "admins", [i \in DOMAIN s.admins |-> AdminValues(s.admins[i])])

utils_migrate_hosts(s, w) ==
    utils_insert_all(s, w, "hosts", [i \in DOMAIN s.hosts |-> HostValues(s.hosts[i])])

utils_migrate_nodes(s, w) ==
    utils_insert_all(s, w, "nodes", [i \in DOMAIN s.nodes |-> NodeValues(s.nodes[i])])

\* json.loads(p["settings"]) outside any try: one row that does not parse raises,
\* and so does s.get on a value that is not a dict
utils_proxies_parse(s, uid) ==
    \A k \in DOMAIN s.proxies :
        s.proxies[k].user_id = uid
            => (ParseSettings(s.proxies[k].settings).ok /\ ~GetRaises(s.proxies[k]))

\* the `for u in users` loop: the users before the one that raises are inserted
RECURSIVE utils_users_loop(_, _, _, _)
utils_users_loop(s, w, ids, zone) ==
    IF ids = <<>> THEN [raised |-> FALSE, db |-> w]
    ELSE LET u == Head(ids)
         IN IF "proxies" \notin s.tables \/ ~utils_proxies_parse(s, u)
               \/ "users" \notin w.tables
            THEN [raised |-> TRUE, db |-> w]
            ELSE utils_users_loop(
                     s, [w EXCEPT !.users =
                             InsertIgnoreAll(@, [i \in {u} |-> UserValues(s, u, zone)])],
                     Tail(ids), zone)

utils_migrate_users_and_proxies(s, w, zone) ==
    IF "users" \notin s.tables THEN Raise(w, {})
    ELSE LET r == utils_users_loop(s, w, SeqOf(DOMAIN s.users), zone)
         IN IF r.raised THEN Raise(r.db, IF r.db = w THEN {} ELSE {"INSERT"})
            ELSE Ok(r.db, Cardinality(DOMAIN s.users),
                    IF DOMAIN s.users = {} THEN {} ELSE {"INSERT"})

IsListener(st) == st.op = "listener"

utils_migrate_inbounds_and_associate(s, w) ==
    IF "inbounds" \notin s.tables THEN Raise(w, {})
    ELSE LET incoming == [i \in DOMAIN s.inbounds |-> InboundValues(s.inbounds[i])]
             sts == InboundStatements(s)
         IN IF DOMAIN incoming = {} THEN Ok(w, 0, {})
            ELSE IF "inbounds" \notin w.tables THEN Raise(w, {})
            ELSE IF "inbounds_groups_association" \notin w.tables
            THEN Raise(ExecuteAll(w, s, SelectSeq(sts, IsListener), TRUE), {"INSERT"})
            ELSE Ok(ExecuteAll(w, s, sts, TRUE),
                    Cardinality(DOMAIN s.inbounds), WriteStmt(incoming, "INSERT"))

-----------------------------------------------------------------------------
(* Initial states: the two databases and the configuration file as the    *)
(* operator left them before the first run.                                *)

SourceTables == {"admins", "inbounds", "hosts", "nodes", "users", "proxies"}

\* a source whose second credential row holds the JSON text null as its settings
NullSettingsSource ==
    [SourceDB(1..MaxId, {}) EXCEPT !.proxies[2] = [@ EXCEPT !.type = "vmess",
                                                            !.settings = "null"]]

Sources == {SourceDB(ids, missing) :
                ids \in Prefixes, missing \in {{}} \cup {{t} : t \in SourceTables}}
             \cup {NullSettingsSource}

\* the sources a caller of migration_utils is started on
UtilsSources == {SourceDB(ids, missing) :
                     ids \in Prefixes, missing \in {{}, {"inbounds"}, {"proxies"}}}

\* migration_utils.read_xray_config tells no unreadable file from a missing one
UtilsXrayFiles == {f \in XrayFiles : f.state # "badjson"}

\* rows an earlier migration or the panel itself left in the target
StaleAdmin(i) == [SrcAdmin(i) EXCEPT !.hashed_password = "stale"]
StaleInbound(i) == [tag |-> <<"stale", i>>]
StaleHost(i) == [remark |-> "stale", inbound_tag |-> <<"in", i>>, alpn |-> PyNone,
                 transport_settings |-> PyNone]
StaleNode(i) == [name |-> <<"node", i>>, status |-> "stale", core_config_id |-> 1]
StaleUser(i) == [username |-> <<"user", i>>, status |-> "stale", used_traffic |-> PyInt(0),
                 admin_id |-> 1, expire |-> PyNone,
                 proxy_settings |-> JsonDumps([k \in {} |-> 0])]
StaleGroup(i) == [name |-> "panel", is_disabled |-> TRUE]
StaleCore(i) == CoreRow(0, "panel", JsonDumps([inbounds |-> <<"old", i>>,
                                               outbounds |-> <<>>, rules |-> <<>>]),
                        "ex", "fb")

EntityTables == {"admins", "inbounds", "inbounds_groups_association", "hosts", "nodes", "users"}

GroupChoices == {[exists |-> FALSE, ids |-> {}]}
                  \cup {[exists |-> TRUE, ids |-> g] : g \in {{}, {1}, {2}}}

CoreChoices == {[exists |-> FALSE, ids |-> {}]}
                 \cup {[exists |-> TRUE, ids |-> c] :
                          c \in {{}, {1}, {1, BackupId(1)}, {2}}}

\* the entity tables are absent (a fresh target) or hold a stale row for every id
EntityChoices == {[exists |-> FALSE, ids |-> {}], [exists |-> TRUE, ids |-> Ids]}

TargetDB(e, g, c) ==
    [tables |-> (IF e.exists THEN EntityTables ELSE {})
                  \cup (IF g.exists THEN {"groups"} ELSE {})
                  \cup (IF c.exists THEN {"core_configs"} ELSE {}),
     admins |-> [i \in e.ids |-> StaleAdmin(i)],
     groups |-> [i \in g.ids |-> StaleGroup(i)],
     core_configs |-> [i \in c.ids |-> StaleCore(i)],
     inbounds |-> [i \in e.ids |-> StaleInbound(i)],
     inbounds_groups_association |-> {<<i, 1>> : i \in e.ids},
     hosts |-> [i \in e.ids |-> StaleHost(i)],
     nodes |-> [i \in e.ids |-> StaleNode(i)],
     users |-> [i \in e.ids |-> StaleUser(i)]]

Targets == {TargetDB(e, g, c) : e \in EntityChoices, g \in GroupChoices, c \in CoreChoices}

\* UTC and Asia/Tehran (+03:30)
TimeZones == {0, 12600}

NoCfg == [user |-> "", host |-> "", port |-> 0, db |-> ""]

EmptySummary == [admins |-> 0, inbounds |-> 0, hosts |-> 0, nodes |-> 0, users |-> 0,
                 xray_configs |-> 0]

InitCommon ==
    /\ tgt \in Targets
    /\ work = tgt
    /\ pre = tgt
    /\ tz \in TimeZones
    /\ xray = NoDoc
    /\ srcCfg = NoCfg
    /\ tgtCfg = NoCfg
    /\ identical = FALSE
    /\ conns = {}
    /\ summary = EmptySummary
    /\ printed = FALSE
    /\ stmts = {}
    /\ trace = <<>>
    /\ last = [op |-> "none", out |-> "ok", backup |-> 0]
    /\ result = TRUE
    /\ hist = <<>>
    /\ run = 0

Init == InitCommon /\ src \in Sources /\ xrayFile \in XrayFiles /\ variant = "main" /\ pc = "Menu"

InitUtils == InitCommon /\ src \in UtilsSources /\ xrayFile \in UtilsXrayFiles
                        /\ variant = "utils" /\ pc = "lib"

InitAll == Init \/ InitUtils

-----------------------------------------------------------------------------
(* marz-go-pasarguard.py: menu choice 2, migrate_marzban_to_pasarguard      *)

SourceDescriptor == [user |-> "marzban", host |-> "127.0.0.1", port |-> 3306, db |-> "marzban"]

\* what the Pasarguard .env may resolve to
TargetDescriptors ==
    {[SourceDescriptor EXCEPT !.user = "pasarguard"],
     [SourceDescriptor EXCEPT !.user = "pasarguard", !.db = "pasarguard"],
     SourceDescriptor}

\* mutant: the guard compares the whole descriptors, user included
SameDatabaseWholeDescriptor(a, b) == a = b

\* the condition of the same-database guard
SameDatabase(a, b) == a.host = b.host /\ a.port = b.port /\ a.db = b.db

Called(name, r) == [op |-> name, out |-> IF r.raised THEN "raised" ELSE "ok", backup |-> r.backup]

Plain(name) == [op |-> name, out |-> "ok", backup |-> 0]

MigratorNames ==
    {"migrate_admins", "ensure_default_group", "ensure_default_core_config",
     "read_xray_config", "migrate_xray_config", "migrate_inbounds_and_associate",
     "migrate_hosts", "migrate_nodes", "migrate_users_and_proxies"}

IsMigrator(name) == name \in MigratorNames

\* conn.close()
CloseConn(c, name) == c \ {name}

\* mutant: the finally block closes marzban_conn only
FinallySourceOnly(c) == CloseConn(c, "marzban")

\* finally: marzban_conn and pasarguard_conn are closed when they are set
Finally(c) == CloseConn(CloseConn(c, "marzban"), "pasarguard")

\* return from migrate_marzban_to_pasarguard: the finally block closes what is open
Return(value, steps, shown) ==
    /\ pc' = "Menu"
    /\ result' = value
    /\ conns' = Finally(conns)
    /\ xray' = NoDoc
    /\ srcCfg' = NoCfg
    /\ tgtCfg' = NoCfg
    /\ hist' = Append(hist, [ok |-> value, db |-> tgt, steps |-> SelectSeq(steps, IsMigrator),
                            printed |-> shown])

\* the operator picks "2" in the menu
StartRun ==
    /\ variant = "main" /\ pc = "Menu" /\ run < MaxRuns
    /\ run' = run + 1
    /\ pc' = "CheckFileAccess"
    /\ summary' = EmptySummary
    /\ printed' = FALSE
    /\ stmts' = {}
    /\ identical' = FALSE
    /\ trace' = <<>>
    /\ last' = Plain("menu")
    /\ pre' = tgt
    /\ UNCHANGED <<variant, tz, src, tgt, work, xrayFile, xray, srcCfg, tgtCfg, conns, result, hist>>

\* check_file_access: the four files exist and are readable and writable
CheckFileAccess ==
    /\ pc = "CheckFileAccess"
    /\ \E others \in BOOLEAN :
          IF others /\ xrayFile.state # "missing"
          THEN /\ pc' = "LoadConfigs"
               /\ UNCHANGED <<result, conns, xray, srcCfg, tgtCfg, hist>>
          ELSE Return(FALSE, Append(trace, "check_file_access"), printed)
    /\ trace' = Append(trace, "check_file_access")
    /\ last' = Plain("check_file_access")
    /\ pre' = tgt
    /\ UNCHANGED <<variant, tz, run, src, tgt, work, xrayFile, identical, summary, printed, stmts>>

\* the two get_db_config calls; an error in either ends the process (sys.exit)
LoadConfigs ==
    /\ pc = "LoadConfigs"
    /\ \/ /\ pc' = "Exited"
          /\ UNCHANGED <<srcCfg, tgtCfg, identical>>
       \/ \E t \in TargetDescriptors :
             /\ srcCfg' = SourceDescriptor
             /\ tgtCfg' = t
             /\ identical' = (SourceDescriptor.host = t.host /\ SourceDescriptor.port = t.port
                                /\ SourceDescriptor.db = t.db)
             /\ pc' = "SameDatabaseGuard"
    /\ trace' = Append(trace, "get_db_config")
    /\ last' = Plain("get_db_config")
    /\ pre' = tgt
    /\ UNCHANGED <<variant, tz, run, src, tgt, work, xrayFile, xray, conns, summary, printed,
                   stmts, result, hist>>

SameDatabaseGuard ==
    /\ pc = "SameDatabaseGuard"
    /\ IF SameDatabase(srcCfg, tgtCfg)
       THEN Return(FALSE, Append(trace, "same_database_guard"), printed)
       ELSE /\ pc' = "TestSourceConn"
            /\ UNCHANGED <<result, conns, xray, srcCfg, tgtCfg, hist>>
    /\ trace' = Append(trace, "same_database_guard")
    /\ last' = Plain("same_database_guard")
    /\ pre' = tgt
    /\ UNCHANGED <<variant, tz, run, src, tgt, work, xrayFile, identical, summary, printed, stmts>>

NoError == [class |-> "none", message |-> <<"", "">>]

\* connect(cfg).  driver: psycopg2 was imported (PSYCOPG2_AVAILABLE); reachable: the
\* server accepts the connection.  dialed: pymysql.connect or psycopg2.connect was
\* called.  Whatever is raised inside the try, the except clause raises
\* Exception("Connection failed (<db_type>): <text of the cause>") in its place.
connect(db_type, driver, reachable) ==
    LET dial == [dialed |-> TRUE,
                 cause |-> IF reachable THEN "none" ELSE "OperationalError"]
        body == CASE db_type = "mysql" -> dial
                  [] db_type = "postgres" ->
                         IF ~driver THEN [dialed |-> FALSE, cause |-> "ImportError"]
                         ELSE dial
                  [] OTHER -> [dialed |-> FALSE, cause |-> "ValueError"]
    IN [raised |-> body.cause # "none",
        dialed |-> body.dialed,
        error |-> IF body.cause = "none" THEN NoError
                  ELSE [class |-> "Exception",
                        message |-> <<"Connection failed", body.cause>>]]

\* the descriptors a run hands to connect: parse_sqlalchemy_url yields mysql or
\* postgres and ends the process on a postgres URL when psycopg2 is missing
ConnectAttempts ==
    {a \in [db_type : {"mysql", "postgres"}, driver : BOOLEAN, reachable : BOOLEAN] :
        a.db_type = "postgres" => a.driver}

\* the connect statement did not raise
Up(a) == ~connect(a.db_type, a.driver, a.reachable).raised

\* what connect(cfg) yields to its caller: the pair it returns, or the exception
\* its except clause raises
Connected(name, up) == [op |-> name, out |-> IF up THEN "ok" ELSE "raised", backup |-> 0]

\* mutant: a connect that failed is taken for one that succeeded
ConnectOutcomeIgnored(up, next) == next

\* where the try block goes after a connect statement: on, or to the except clause
ConnectOutcome(up, next) == IF up THEN next ELSE "Except"

\* conn, _ = connect(cfg); conn.close()  -- or the except branch that returns False
TestConn(here, next, name) ==
    /\ pc = here
    /\ \E a \in ConnectAttempts :
          /\ IF Up(a)
             THEN /\ pc' = next
                  /\ conns' = CloseConn(conns \cup {name}, name)
                  /\ UNCHANGED <<result, xray, srcCfg, tgtCfg, hist>>
             ELSE Return(FALSE, Append(trace, name), printed)
          /\ last' = Connected(name, Up(a))
    /\ trace' = Append(trace, name)
    /\ pre' = tgt
    /\ UNCHANGED <<variant, tz, run, src, tgt, work, xrayFile, identical, summary, printed, stmts>>

TestSourceConn == TestConn("TestSourceConn", "TestTargetConn", "test_connect_marzban")

TestTargetConn == TestConn("TestTargetConn", "ResolveSourceConn", "test_connect_pasarguard")

\* marzban_conn, marzban_db_type = connect(marzban_config)
ResolveSourceConn ==
    /\ pc = "ResolveSourceConn"
    /\ \E a \in ConnectAttempts :
          /\ pc' = ConnectOutcome(Up(a), "ResolveTargetConn")
          /\ conns' = IF Up(a) THEN conns \cup {"marzban"} ELSE conns
          /\ last' = Connected("connect_marzban", Up(a))
    /\ trace' = Append(trace, "connect_marzban")
    /\ pre' = tgt
    /\ UNCHANGED <<variant, tz, run, src, tgt, work, xrayFile, xray, srcCfg, tgtCfg, identical,
                   summary, printed, stmts, result, hist>>

\* pasarguard_conn, pasarguard_db_type = connect(pasarguard_config); the
\* descriptors are not read after this line
ResolveTargetConn ==
    /\ pc = "ResolveTargetConn"
    /\ \E a \in ConnectAttempts :
          /\ pc' = ConnectOutcome(Up(a), "MigrateAdmins")
          /\ conns' = IF Up(a) THEN conns \cup {"pasarguard"} ELSE conns
          /\ last' = Connected("connect_pasarguard", Up(a))
    /\ srcCfg' = NoCfg
    /\ tgtCfg' = NoCfg
    /\ work' = tgt
    /\ trace' = Append(trace, "connect_pasarguard")
    /\ pre' = tgt
    /\ UNCHANGED <<variant, tz, run, src, tgt, xrayFile, xray, identical, summary, printed,
                   stmts, result, hist>>

\* mutant: every statement is committed as it is executed (autocommit)
CommittedAsExecuted(r, before) == r.db

\* what the target holds after a call: the one commit of a migrator is its last
\* statement, so a call that raised has committed nothing
Committed(r, before) == IF r.raised THEN before ELSE r.db

\* mutant: a migrator deletes the rows it has read
SourceStatementsWithDelete(name) ==
    IF name \in MigratorNames \ {"ensure_default_group", "ensure_default_core_config",
                                 "read_xray_config", "migrate_xray_config"}
    THEN {"SELECT", "DELETE"}
    ELSE {}

\* the kinds of statement a function executes on cursors of marzban_conn: the
\* SELECT * FROM <table> of the five entity migrators and the SELECT on proxies
SourceStatements(name) ==
    IF name \in MigratorNames \ {"ensure_default_group", "ensure_default_core_config",
                                 "read_xray_config", "migrate_xray_config"}
    THEN {"SELECT"}
    ELSE {}

\* the source after statements of these kinds: a SELECT leaves every table as it is
ExecuteOnSource(s, kinds) ==
    IF kinds \subseteq {"SELECT"} THEN s
    ELSE [s EXCEPT !.admins = NoRows, !.inbounds = NoRows, !.hosts = NoRows,
                   !.nodes = NoRows, !.users = NoRows, !.proxies = NoRows]

\* one statement of the try block that calls a migrator: r is what the call
\* yields, key the migration_summary entry it is assigned to
Step(here, name, next, r, key) ==
    /\ pc = here
    /\ pc' = IF r.raised THEN "Except" ELSE next
    /\ work' = r.db
    /\ tgt' = Committed(r, tgt)
    /\ stmts' = stmts \cup r.stmts
    /\ summary' = IF r.raised \/ key = "none" THEN summary
                  ELSE [summary EXCEPT ![key] = r.ret]
    /\ src' = ExecuteOnSource(src, SourceStatements(name))
    /\ trace' = Append(trace, name)
    /\ last' = Called(name, r)
    /\ pre' = tgt
    /\ UNCHANGED <<variant, tz, run, xrayFile, xray, srcCfg, tgtCfg, identical, conns,
                   printed, result, hist>>

\* mutant: the listener step follows the admin step directly
MigrateAdminsThenListeners ==
    Step("MigrateAdmins", "migrate_admins", "MigrateListeners", migrate_admins(src, work),
         "admins")

MigrateAdmins ==
    Step("MigrateAdmins", "migrate_admins", "EnsureGroup", migrate_admins(src, work), "admins")

EnsureGroup ==
    Step("EnsureGroup", "ensure_default_group", "EnsureCoreConfigDefault",
         ensure_default_group(work), "none")

EnsureCoreConfigDefault ==
    Step("EnsureCoreConfigDefault", "ensure_default_core_config", "ReadXrayConfig",
         ensure_default_core_config(work, run), "none")

\* xray_config = read_xray_config()
ReadXrayConfig ==
    /\ pc = "ReadXrayConfig"
    /\ LET r == read_xray_config(xrayFile)
       IN /\ pc' = IF r.raised THEN "Except" ELSE "MigrateCoreConfig"
          /\ xray' = r.doc
          /\ last' = [op |-> "read_xray_config",
                      out |-> IF r.raised THEN "raised" ELSE "ok", backup |-> 0]
    /\ trace' = Append(trace, "read_xray_config")
    /\ pre' = tgt
    /\ UNCHANGED <<variant, tz, run, src, tgt, work, xrayFile, srcCfg, tgtCfg, identical, conns,
                   summary, printed, stmts, result, hist>>

MigrateCoreConfig ==
    Step("MigrateCoreConfig", "migrate_xray_config", "MigrateListeners",
         migrate_xray_config(work, xray, run), "xray_configs")

MigrateListeners ==
    Step("MigrateListeners", "migrate_inbounds_and_associate", "MigrateHosts",
         migrate_inbounds_and_associate(src, work), "inbounds")

MigrateHosts ==
    Step("MigrateHosts", "migrate_hosts", "MigrateNodes", migrate_hosts(src, work), "hosts")

MigrateNodes ==
    Step("MigrateNodes", "migrate_nodes", "MigrateUsers", migrate_nodes(src, work), "nodes")

MigrateUsers ==
    Step("MigrateUsers", "migrate_users_and_proxies", "Summarize",
         migrate_users_and_proxies(src, work, tz), "users")

\* the summary block, then return True through the finally block
Summarize ==
    /\ pc = "Summarize"
    /\ printed' = TRUE
    /\ Return(TRUE, Append(trace, "summary"), TRUE)
    /\ trace' = Append(trace, "summary")
    /\ last' = Plain("summary")
    /\ pre' = tgt
    /\ UNCHANGED <<variant, tz, run, src, tgt, work, xrayFile, identical, summary, stmts>>

\* except Exception: rollback when pasarguard_conn is set, return False
ExceptHandler ==
    /\ pc = "Except"
    /\ work' = tgt
    /\ stmts' = IF "pasarguard" \in conns THEN stmts \cup {"ROLLBACK"} ELSE stmts
    /\ Return(FALSE, Append(trace, "except"), printed)
    /\ trace' = Append(trace, "except")
    /\ last' = [last EXCEPT !.out = "raised"]
    /\ pre' = pre
    /\ UNCHANGED <<variant, tz, run, src, tgt, xrayFile, identical, summary, printed>>

Next ==
    \/ StartRun
    \/ CheckFileAccess
    \/ LoadConfigs
    \/ SameDatabaseGuard
    \/ TestSourceConn
    \/ TestTargetConn
    \/ ResolveSourceConn
    \/ ResolveTargetConn
    \/ MigrateAdmins
    \/ EnsureGroup
    \/ EnsureCoreConfigDefault
    \/ ReadXrayConfig
    \/ MigrateCoreConfig
    \/ MigrateListeners
    \/ MigrateHosts
    \/ MigrateNodes
    \/ MigrateUsers
    \/ Summarize
    \/ ExceptHandler

Spec == Init /\ [][Next]_vars

-----------------------------------------------------------------------------
(* migration_utils.py: a caller holding the two connections calls the      *)
(* functions in any order.  An exception leaves the function before its    *)
(* commit and the connection keeps the statements already executed.        *)

Call(name, r) ==
    /\ variant = "utils" /\ pc = "lib" /\ Len(trace) < MaxCalls
    /\ work' = r.db
    /\ tgt' = IF r.raised THEN tgt ELSE r.db
    /\ stmts' = stmts \cup r.stmts
    /\ trace' = Append(trace, name)
    /\ last' = Called(name, r)
    /\ pre' = tgt
    /\ UNCHANGED <<variant, tz, pc, run, src, xrayFile, xray, srcCfg, tgtCfg, identical, conns,
                   summary, printed, result, hist>>

UtilsEnsureGroup == Call("ensure_default_group", utils_ensure_default_group(work))

UtilsMigrateCoreConfig ==
    \E rejected \in BOOLEAN :
        Call("migrate_xray_config",
             utils_migrate_xray_config(work, xrayFile, Len(trace) + 1, rejected))

UtilsMigrateListeners ==
    Call("migrate_inbounds_and_associate", utils_migrate_inbounds_and_associate(src, work))

UtilsMigrateAdmins == Call("migrate_admins", utils_migrate_admins(src, work))

UtilsMigrateHosts == Call("migrate_hosts", utils_migrate_hosts(src, work))

UtilsMigrateNodes == Call("migrate_nodes", utils_migrate_nodes(src, work))

UtilsMigrateUsers ==
    Call("migrate_users_and_proxies", utils_migrate_users_and_proxies(src, work, tz))

NextUtils ==
    \/ UtilsMigrateAdmins
    \/ UtilsEnsureGroup
    \/ UtilsMigrateCoreConfig
    \/ UtilsMigrateListeners
    \/ UtilsMigrateHosts
    \/ UtilsMigrateNodes
    \/ UtilsMigrateUsers

SpecUtils == InitUtils /\ [][NextUtils]_vars

NextAll ==
    \/ Next
    \/ NextUtils

SpecAll == InitAll /\ [][NextAll]_vars

-----------------------------------------------------------------------------
(* Properties *)

InTrace(name) == \E k \in 1..Len(trace) : trace[k] = name

\* a run of the menu script has returned to the menu
RunOver == variant = "main" /\ pc = "Menu" /\ run >= 1

\* core-config migration was the last call and had a configuration to migrate
CoreMigrated == last.op = "migrate_xray_config" /\ xrayFile.state = "ok"

EntitySteps == {"migrate_admins", "migrate_inbounds_and_associate", "migrate_hosts",
                "migrate_nodes", "migrate_users_and_proxies"}

\* C1: a second run right after a complete first run, with the same source rows and
\* the same configuration file, completes every step and leaves every target table
\* with the rows it held after the first run.
C1_SecondRunSameAsFirst ==
    (Len(hist) >= 2 /\ hist[1].ok /\ hist[2].steps # <<>>)
        => (hist[2].ok /\ hist[2].db = hist[1].db)

\* C2: when the loaded descriptors agree on host, port and database name the run
\* goes from the guard straight back to the menu with False: no statement is issued
\* on the target, no connection is opened and no migrator is called.
C2_SameDatabaseGuard ==
    identical =>
        /\ pc \in {"SameDatabaseGuard", "Menu"}
        /\ stmts = {}
        /\ work = tgt
        /\ conns = {}
        /\ SelectSeq(trace, IsMigrator) = <<>>
        /\ (pc = "Menu" => result = FALSE /\ ~printed)

C2_Witness ==
    identical /\ pc = "Menu" /\ last.op = "same_database_guard" /\ result = FALSE

\* C3: a run whose first migrator was called goes on to call every later migrator,
\* whichever of them raised; when the listener step raised, the admin rows and the
\* host rows of the source are committed in the target.
C3_LaterStepsStillRun ==
    (RunOver /\ InTrace("migrate_admins"))
        => /\ \A m \in EntitySteps : InTrace(m)
           /\ (last.op = "migrate_inbounds_and_associate" /\ last.out = "raised")
                 => /\ \A i \in DOMAIN src.admins :
                          i \in DOMAIN tgt.admins /\ tgt.admins[i] = AdminValues(src.admins[i])
                    /\ \A i \in DOMAIN src.hosts :
                          i \in DOMAIN tgt.hosts /\ tgt.hosts[i] = HostValues(src.hosts[i])

\* C4: every run that got past the guard and the connections prints the migration
\* summary before it returns, also when a step failed.
C4_SummaryAlwaysPrinted ==
    (RunOver /\ InTrace("migrate_admins")) => printed

\* C5: when core-config migration commits and a row id=1 existed, id=1 holds the
\* legacy configuration and exactly one new row, with an id other than 1, holds the
\* config and both tag columns id=1 had before; when it does not commit, id=1 is as
\* it was.
C5_ArchiveKeepsPrior ==
    (CoreMigrated /\ 1 \in DOMAIN pre.core_configs)
        => IF last.out = "ok"
           THEN /\ tgt.core_configs[1].config = JsonDumps(xrayFile.doc)
                /\ \E b \in DOMAIN tgt.core_configs \ DOMAIN pre.core_configs :
                      /\ b # 1
                      /\ DOMAIN tgt.core_configs = DOMAIN pre.core_configs \cup {b}
                      /\ tgt.core_configs[b].config = pre.core_configs[1].config
                      /\ tgt.core_configs[b].exclude_inbound_tags
                           = pre.core_configs[1].exclude_inbound_tags
                      /\ tgt.core_configs[b].fallbacks_inbound_tags
                           = pre.core_configs[1].fallbacks_inbound_tags
           ELSE tgt.core_configs = pre.core_configs

C5_Witness ==
    /\ variant = "main" /\ CoreMigrated /\ last.out = "ok"
    /\ 1 \in DOMAIN pre.core_configs
    /\ pre.core_configs[1].exclude_inbound_tags = "ex"
    /\ pre.core_configs[1].config # tgt.core_configs[1].config

\* C6: whatever core_configs held before the step, the id chosen for the archive row
\* is the id of no row of the table and the step does not fail.
C6_ArchiveIdIsFresh ==
    (CoreMigrated /\ 1 \in DOMAIN pre.core_configs)
        => (last.backup \notin DOMAIN pre.core_configs /\ last.out = "ok")

\* C7: core-config migration adds a row with an id other than 1 only if id=1
\* existed when it was called; when core_configs exists without a row id=1 the step
\* succeeds, writes the legacy configuration at id=1, changes no other row and the
\* table grows by exactly one row.
C7_ArchiveOnlyIfExisting ==
    /\ CoreMigrated =>
        LET added == DOMAIN tgt.core_configs \ DOMAIN pre.core_configs
        IN /\ (added \ {1} # {}) => 1 \in DOMAIN pre.core_configs
           /\ ("core_configs" \in pre.tables /\ 1 \notin DOMAIN pre.core_configs)
                 => /\ last.out = "ok"
                    /\ added = {1}
                    /\ Cardinality(DOMAIN tgt.core_configs)
                         = Cardinality(DOMAIN pre.core_configs) + 1
                    /\ tgt.core_configs[1].config = JsonDumps(xrayFile.doc)
                    /\ \A i \in DOMAIN pre.core_configs :
                          tgt.core_configs[i] = pre.core_configs[i]
    /\ \* the menu script's function on a table without id=1, which the orchestrator
       \* never hands it: the state before ensure_default_core_config
       (variant = "main" /\ pc = "EnsureCoreConfigDefault"
          /\ "core_configs" \in work.tables /\ 1 \notin DOMAIN work.core_configs)
          => LET r == migrate_xray_config(work, LegacyConfig, run)
             IN /\ ~r.raised
                /\ r.backup = 0
                /\ DOMAIN r.db.core_configs = DOMAIN work.core_configs \cup {1}
                /\ r.db.core_configs[1].config = JsonDumps(LegacyConfig)
                /\ \A i \in DOMAIN work.core_configs :
                      r.db.core_configs[i] = work.core_configs[i]

C7_Witness ==
    /\ CoreMigrated /\ last.out = "ok"
    /\ DOMAIN pre.core_configs = {2}
    /\ DOMAIN tgt.core_configs = {1, 2}

\* C8: a run whose configuration file cannot be read or parsed still calls the
\* listener, host, node and user migrators after the default core config is ensured.
C8_NoConfigIsSkipped ==
    (RunOver /\ xrayFile.state # "ok" /\ InTrace("ensure_default_core_config"))
        => \A m \in EntitySteps \ {"migrate_admins"} : InTrace(m)

\* C9: ensure_default_group and ensure_default_core_config change nothing when their
\* table holds id=1, add exactly the row id=1 and change no other row when it does
\* not, and change nothing when called again.
C9_EnsureDefaultsNeverOverwrite ==
    /\ last.op = "ensure_default_group"
          => /\ DOMAIN tgt.groups = DOMAIN pre.groups \cup {1}
             /\ \A i \in DOMAIN pre.groups : tgt.groups[i] = pre.groups[i]
             /\ tgt.core_configs = pre.core_configs
             /\ ensure_default_group(tgt).db = tgt
    /\ last.op = "ensure_default_core_config"
          => /\ DOMAIN tgt.core_configs = DOMAIN pre.core_configs \cup {1}
             /\ \A i \in DOMAIN pre.core_configs : tgt.core_configs[i] = pre.core_configs[i]
             /\ tgt.groups = pre.groups
             /\ ensure_default_core_config(tgt, run).db = tgt

C9_Witness ==
    /\ last.op = "ensure_default_group"
    /\ 1 \in DOMAIN pre.groups
    /\ pre.groups[1].name = "panel"
    /\ tgt.groups[1].name = "panel"

\* C10: when listener migration is called after ensure_default_group (the next call
\* in the library, the MigrateListeners statement in the menu script) the groups
\* table holds a row id=1, and no call removes a groups row.
C10_DefaultGroupBeforeListeners ==
    /\ (variant = "main" /\ pc = "MigrateListeners") => 1 \in DOMAIN tgt.groups
    /\ (variant = "utils" /\ last.op = "migrate_inbounds_and_associate" /\ Len(trace) >= 2
          /\ trace[Len(trace) - 1] = "ensure_default_group" /\ "groups" \in pre.tables)
          => 1 \in DOMAIN pre.groups
    /\ DOMAIN pre.groups \subseteq DOMAIN tgt.groups

\* C11: when listener migration commits, the association table holds (i, 1) for
\* every source inbound i and gained nothing else; pairs present before the step cause
\* no error; and every association insert is issued after every listener write.
C11_AssociationAfterListeners ==
    LET m == "migrate_inbounds_and_associate"
        pairs == {<<i, 1>> : i \in DOMAIN src.inbounds}
        sts == InboundStatements(src)
    IN /\ (last.op = m /\ last.out = "ok")
             => /\ pairs \subseteq tgt.inbounds_groups_association
                /\ tgt.inbounds_groups_association = pre.inbounds_groups_association \cup pairs
                /\ \A i \in DOMAIN src.inbounds :
                      Cardinality({q \in tgt.inbounds_groups_association : q[1] = i}) = 1
       /\ (last.op = m /\ "inbounds" \in src.tables
             /\ {"inbounds", "inbounds_groups_association"} \subseteq pre.tables)
             => last.out = "ok"
       /\ \A j, k \in 1..Len(sts) :
             (sts[j].op = "association" /\ sts[k].op = "listener") => k < j

C11_Witness ==
    /\ last.op = "migrate_inbounds_and_associate" /\ last.out = "ok"
    /\ Cardinality(DOMAIN src.inbounds) >= 2
    /\ <<1, 1>> \in pre.inbounds_groups_association
    /\ <<1, 1>> \in tgt.inbounds_groups_association

UsersMigrated == last.op = "migrate_users_and_proxies"

\* the credential rows of a user, as keys of the proxies table
RowsOf(uid) == {k \in DOMAIN src.proxies : src.proxies[k].user_id = uid}

Parses(k) == ParseSettings(src.proxies[k].settings).ok

\* the row was not in the target, or the menu script's upsert overwrote it
Written(uid) == variant = "main" \/ uid \notin DOMAIN pre.users

\* C12: when user migration commits, the merged object of every user has keys among
\* the four protocols only, a protocol is a key exactly when the user has a parsed row
\* of it, and its entry is built from the last such row in iteration order; that
\* object is what the user's row holds.
C12_LastCredentialWins ==
    (UsersMigrated /\ last.out = "ok")
        => \A uid \in DOMAIN src.users :
              LET cfg == ProxyCfg(src, uid)
              IN /\ DOMAIN cfg \subseteq Protocols
                 /\ \A p \in Protocols :
                       LET ks == {k \in RowsOf(uid) :
                                     Parses(k) /\ LowerType(src.proxies[k].type) = p}
                       IN IF ks = {} THEN p \notin DOMAIN cfg
                          ELSE cfg[p] = ProxyEntry(
                                   p, ParseSettings(src.proxies[Max(ks)].settings).d)
                 /\ Written(uid) => tgt.users[uid].proxy_settings = JsonDumps(cfg)

C12_Witness ==
    /\ UsersMigrated /\ last.out = "ok" /\ 1 \in DOMAIN src.users
    /\ Cardinality({k \in RowsOf(1) : LowerType(src.proxies[k].type) = "vmess"}) = 2
    /\ tgt.users[1].proxy_settings = JsonDumps("vmess" :> ("id" :> "B"))

\* C13: user migration over existing tables does not fail on a credential row whose
\* settings do not parse: every user's row is in the target afterwards, and a row
\* written by the step holds the merge of the user's rows that do parse.
C13_BadCredentialSkipped ==
    (UsersMigrated /\ {"users", "proxies"} \subseteq src.tables
       /\ (variant = "utils" => "users" \in pre.tables))
        => /\ last.out = "ok"
           /\ \A uid \in DOMAIN src.users :
                 /\ uid \in DOMAIN tgt.users
                 /\ Written(uid)
                       => tgt.users[uid].proxy_settings
                            = JsonDumps(MergeProxies([k \in {} |-> 0], src.proxies,
                                                     {k \in RowsOf(uid) : Parses(k)}))

\* C14: a credential row whose lower-cased type is none of the four protocols changes
\* nothing: the merged object of every user is the merge of the user's rows of the
\* four protocols, its keys are among the four names, and user migration over an
\* existing source does not fail unless a row of one of the four protocols makes it.
C14_UnknownTypeIgnored ==
    /\ "proxies" \in src.tables
          => \A uid \in DOMAIN src.users :
                LET cfg == ProxyCfg(src, uid)
                    known == {k \in RowsOf(uid) : LowerType(src.proxies[k].type) \in Protocols}
                IN /\ DOMAIN cfg \subseteq Protocols
                   /\ cfg = MergeProxies([k \in {} |-> 0], src.proxies, known)
                   /\ (UsersMigrated /\ last.out = "ok")
                         => tgt.users[uid].proxy_settings = JsonDumps(cfg)
    /\ (UsersMigrated /\ {"users", "proxies"} \subseteq src.tables /\ RaisingUsers(src) = {})
          => last.out = "ok"

C14_Witness ==
    /\ variant = "main" /\ UsersMigrated /\ last.out = "ok" /\ 1 \in DOMAIN src.users
    /\ \E k \in RowsOf(1) : LowerType(src.proxies[k].type) = "http" /\ Parses(k)
    /\ tgt.users[1].proxy_settings = JsonDumps("vmess" :> ("id" :> "B"))

\* the UTC date and time of an epoch, as seconds on the UTC wall clock
UtcDatetime(n) == [t |-> "datetime", naive |-> n]

\* C15: when user migration commits, a falsy source expiry is stored as NULL, an epoch
\* integer as its UTC datetime and a text that is no date as NULL; no expiry makes
\* user migration over an existing source fail.
C15_ExpireConversion ==
    /\ (UsersMigrated /\ last.out = "ok")
          => \A uid \in DOMAIN src.users :
                LET e == src.users[uid].expire
                    x == tgt.users[uid].expire
                IN Written(uid)
                     => /\ Falsy(e) => x = PyNone
                        /\ (e.t = "int" /\ ~Falsy(e)) => x = UtcDatetime(e.n)
                        /\ (e.t = "str" /\ ~Falsy(e)) => x = PyNone
    /\ (variant = "main" /\ UsersMigrated /\ {"users", "proxies"} \subseteq src.tables
          /\ RaisingUsers(src) = {})
          => last.out = "ok"

\* the row of table t was not in the target, or the menu script's upsert overwrote it
WrittenIn(t, i) == variant = "main" \/ i \notin DOMAIN pre[t]

\* values an alpn column can yield
AlpnInputs ==
    {PyNone} \cup
    {PyStr(x) : x \in {<<>>, <<" ">>, <<"n", "o", "n", "e">>, <<"N", "o", "n", "e">>,
                       <<"N", "U", "L", "L", " ">>, <<" ", "n", "u", "l", "l">>,
                       <<"\t", "N", "O", "N", "E", "\n">>, <<"h", "2">>, <<" ", "h", "2", " ">>,
                       <<"h", "2", ",", "h", "t", "t", "p", "/", "1", ".", "1">>,
                       <<"n", "o", "n", "e", "x">>, <<"H", "3">>}}

\* none, null or the empty text, in any letter case and with any whitespace around
IsNullText(x) == Lower(Strip(x)) \in AlpnNulls

\* C16: where host migration has applied it, safe_alpn gives NULL for NULL and for the texts none, null and empty (any
\* case, trimmed), gives every other text trimmed and otherwise unchanged, never
\* gives one of those texts, and the alpn of every host row written by host
\* migration is safe_alpn of the source value.
C16_AlpnNormalized ==
    /\ last.op = "migrate_hosts" => \A v \in AlpnInputs :
          LET r == safe_alpn(v)
          IN /\ (v = PyNone \/ IsNullText(v.s)) => r = PyNone
             /\ (v # PyNone /\ ~IsNullText(v.s)) => r = PyStr(Strip(v.s))
             /\ r # PyNone => ~IsNullText(r.s)
    /\ (last.op = "migrate_hosts" /\ last.out = "ok")
          => \A i \in DOMAIN src.hosts :
                WrittenIn("hosts", i)
                  => LET a == tgt.hosts[i].alpn
                     IN /\ a = PyNone \/ ~IsNullText(a.s)
                        /\ src.hosts[i].alpn \in AlpnInputs
                        /\ a = IF src.hosts[i].alpn = PyNone \/ IsNullText(src.hosts[i].alpn.s)
                                THEN PyNone ELSE PyStr(Strip(src.hosts[i].alpn.s))

C16_Witness ==
    /\ last.op = "migrate_hosts" /\ last.out = "ok" /\ {1, 2} \subseteq DOMAIN src.hosts
    /\ WrittenIn("hosts", 1)
    /\ src.hosts[1].alpn = PyStr(<<"N", "U", "L", "L", " ">>) /\ tgt.hosts[1].alpn = PyNone
    /\ tgt.hosts[2].alpn = PyStr(<<"h", "2">>)

\* values handed to safe_json
JsonInputs ==
    {PyNone, EmptyDict, EmptyList, SomeBytes} \cup
    {PyStr(x) : x \in {<<>>, <<"{", "}">>, <<"[", "]">>, <<"n", "u", "l", "l">>,
                       <<"n", "o">>, <<"{">>, <<" ">>}}

\* C17: where host migration has applied it, safe_json gives NULL for NULL and the empty text, gives a text that parses
\* unchanged and NULL for one that does not, gives the JSON text of a structured
\* value ({} for an empty dict) and NULL when it cannot be serialized; its result
\* is NULL or JSON text, and so is every settings value host migration wrote.
C17_JsonNormalized ==
    /\ last.op = "migrate_hosts" => \A v \in JsonInputs :
          LET r == safe_json(v)
          IN /\ (v = PyNone \/ v = PyStr(<<>>)) => r = PyNone
             /\ (v.t = "str" /\ v.s \in JsonTexts) => r = v
             /\ (v.t = "str" /\ v.s \notin JsonTexts) => r = PyNone
             /\ v = EmptyDict => r = PyStr(<<"{", "}">>)
             /\ v = EmptyList => r = PyStr(<<"[", "]">>)
             /\ r = PyNone \/ (r.t = "str" /\ r.s \in JsonTexts)
    /\ (last.op = "migrate_hosts" /\ last.out = "ok")
          => \A i \in DOMAIN src.hosts :
                WrittenIn("hosts", i)
                  => LET x == tgt.hosts[i].transport_settings
                     IN /\ src.hosts[i].transport_settings \in JsonInputs
                        /\ x = PyNone \/ (x.t = "str" /\ x.s \in JsonTexts)

C17_Witness ==
    /\ last.op = "migrate_hosts" /\ last.out = "ok" /\ {1, 2} \subseteq DOMAIN src.hosts
    /\ WrittenIn("hosts", 2)
    /\ src.hosts[2].transport_settings = PyStr(<<"n", "o">>)
    /\ tgt.hosts[2].transport_settings = PyNone
    /\ tgt.hosts[1].transport_settings = PyStr(<<"{", "}">>)

\* C18: when an entity migrator commits, the target holds for every source row a row
\* of that id whose columns are the values built from the source row, whatever the
\* target held under that id before.
C18_UpsertOverwrites ==
    last.out = "ok" =>
        /\ last.op = "migrate_admins"
              => \A i \in DOMAIN src.admins :
                    i \in DOMAIN tgt.admins /\ tgt.admins[i] = AdminValues(src.admins[i])
        /\ last.op = "migrate_inbounds_and_associate"
              => \A i \in DOMAIN src.inbounds :
                    i \in DOMAIN tgt.inbounds
                      /\ tgt.inbounds[i] = InboundValues(src.inbounds[i])
        /\ last.op = "migrate_hosts"
              => \A i \in DOMAIN src.hosts :
                    i \in DOMAIN tgt.hosts /\ tgt.hosts[i] = HostValues(src.hosts[i])
        /\ last.op = "migrate_nodes"
              => \A i \in DOMAIN src.nodes :
                    i \in DOMAIN tgt.nodes /\ tgt.nodes[i] = NodeValues(src.nodes[i])
        /\ last.op = "migrate_users_and_proxies"
              => \A i \in DOMAIN src.users :
                    i \in DOMAIN tgt.users /\ tgt.users[i] = UserValues(src, i, tz)

\* C19: when a run is back at the menu, or the process has exited, no connection the
\* run opened is open, and a connection opened to test connectivity is closed by the
\* statement that opened it.
C19_ConnectionsClosed ==
    /\ pc \in {"Menu", "Exited"} => conns = {}
    /\ conns \subseteq {"marzban", "pasarguard"}

C19_Witness ==
    /\ pc = "Menu" /\ run >= 1 /\ result = FALSE /\ conns = {}
    /\ InTrace("connect_pasarguard") /\ InTrace("migrate_admins")
    /\ last.out = "raised"

\* C20: every node row node migration wrote has core_config_id 1 whatever the source
\* row held; when the menu script is about to migrate nodes, core_configs holds id=1;
\* after a completed run every node's core_config_id is the id of a core_configs row.
C20_NodesUseCoreConfigOne ==
    /\ (last.op = "migrate_nodes" /\ last.out = "ok")
          => \A i \in DOMAIN src.nodes :
                WrittenIn("nodes", i) => tgt.nodes[i].core_config_id = 1
    /\ (variant = "main" /\ pc = "MigrateNodes")
          => (1 \in DOMAIN tgt.core_configs /\ 1 \in DOMAIN work.core_configs)
    /\ (RunOver /\ result = TRUE)
          => \A i \in DOMAIN tgt.nodes : tgt.nodes[i].core_config_id \in DOMAIN tgt.core_configs

C20_Witness ==
    /\ last.op = "migrate_nodes" /\ last.out = "ok" /\ 1 \in DOMAIN src.nodes
    /\ src.nodes[1].core_config_id = 2
    /\ WrittenIn("nodes", 1)
    /\ tgt.nodes[1].core_config_id = 1

ConnectNames == {"test_connect_marzban", "test_connect_pasarguard",
                 "connect_marzban", "connect_pasarguard"}

\* the last statement of the run was a connect that raised
ConnectFailed == variant = "main" /\ last.op \in ConnectNames /\ last.out = "raised"

Occurrences(name) == Cardinality({k \in 1..Len(trace) : trace[k] = name})

\* C21: when a connect of the run raised, the run goes nowhere but to the except
\* clause and back to the menu with False: no migrator was called, no CREATE and no
\* write statement was issued, the target is what it was when the run began, and the
\* connect that failed was attempted once.
C21_ConnectFailureStopsRun ==
    ConnectFailed =>
        /\ pc \in {"Except", "Menu"}
        /\ SelectSeq(trace, IsMigrator) = <<>>
        /\ stmts \subseteq {"ROLLBACK"}
        /\ work = tgt
        /\ Occurrences(last.op) = 1
        /\ pc = "Menu" => /\ result = FALSE
                          /\ ~printed
                          /\ hist[Len(hist)].steps = <<>>
                          /\ Len(hist) >= 2 => hist[Len(hist)].db = hist[Len(hist) - 1].db

C21_Witness ==
    /\ ConnectFailed /\ pc = "Menu" /\ last.op = "connect_pasarguard"
    /\ result = FALSE /\ run = 2 /\ hist[1].ok

\* the order of steps the orchestrator is specified to follow, by the names the
\* trace gives to the statements of migrate_marzban_to_pasarguard
SpecifiedOrder ==
    <<"connect_marzban", "connect_pasarguard", "same_database_guard", "migrate_admins",
      "ensure_default_group", "ensure_default_core_config", "migrate_xray_config",
      "migrate_inbounds_and_associate", "migrate_hosts", "migrate_nodes",
      "migrate_users_and_proxies", "summary">>

IsSpecifiedStep(name) == \E k \in 1..Len(SpecifiedOrder) : SpecifiedOrder[k] = name

IsPrefix(a, b) == Len(a) =< Len(b) /\ \A k \in 1..Len(a) : a[k] = b[k]

\* C22: at every point of a run the steps taken so far are, in this order and once
\* each, a beginning of: source connection, target connection, same-database guard,
\* admins, default group, default core config, core config, listeners, hosts, nodes,
\* users, summary.
C22_LinearOrder ==
    variant = "main" => IsPrefix(SelectSeq(trace, IsSpecifiedStep), SpecifiedOrder)

EntityTableOf(m) ==
    CASE m = "migrate_admins" -> "admins"
      [] m = "migrate_inbounds_and_associate" -> "inbounds"
      [] m = "migrate_hosts" -> "hosts"
      [] m = "migrate_nodes" -> "nodes"
      [] OTHER -> "users"

\* the row a migrator writes for source row i
ValuesOf(m, i) ==
    CASE m = "migrate_admins" -> AdminValues(src.admins[i])
      [] m = "migrate_inbounds_and_associate" -> InboundValues(src.inbounds[i])
      [] m = "migrate_hosts" -> HostValues(src.hosts[i])
      [] m = "migrate_nodes" -> NodeValues(src.nodes[i])
      [] OTHER -> UserValues(src, i, tz)

\* the committed target holds the migrated row of every source row of step m
CommittedStep(m) ==
    LET t == EntityTableOf(m)
    IN /\ t \in tgt.tables
       /\ \A i \in DOMAIN src[t] : i \in DOMAIN tgt[t] /\ tgt[t][i] = ValuesOf(m, i)

\* table t is as it was when the run began
UntouchedSinceRunBegan(t) ==
    IF Len(hist) >= 2
    THEN /\ tgt[t] = hist[Len(hist) - 1].db[t]
         /\ (t \in tgt.tables) = (t \in hist[Len(hist) - 1].db.tables)
    ELSE \E e \in EntityChoices :
            /\ tgt[t] = TargetDB(e, e, e)[t]
            /\ (t \in tgt.tables) = e.exists

\* a step of the try block raised and the run has gone through the except clause
StepFailed ==
    /\ RunOver /\ result = FALSE
    /\ last.op \in MigratorNames /\ last.out = "raised"

C24_NoRowRaises ==
    (UsersMigrated /\ {"users", "proxies"} \subseteq src.tables)
        => /\ last.out = "ok"
           /\ \A uid \in DOMAIN src.users :
                 /\ uid \in DOMAIN tgt.users
                 /\ Written(uid) =>
                       /\ tgt.users[uid].proxy_settings
                            = JsonDumps(MergeProxies([k \in {} |-> 0], src.proxies,
                                  {k \in RowsOf(uid) : Parses(k) /\ ~GetRaises(src.proxies[k])}))
                       /\ src.users[uid].expire.t = "str" => tgt.users[uid].expire = PyNone

\* the last call was core-config migration and its archive INSERT was attempted and
\* failed: the menu script's function raised on it, the library's function went on
\* without the archive row
ArchiveInsertFailed ==
    /\ CoreMigrated /\ 1 \in DOMAIN pre.core_configs /\ last.backup # 0
    /\ \/ last.out = "raised"
       \/ last.backup \notin DOMAIN tgt.core_configs

\* C25: when the archive insert of core-config migration failed, the row id=1 is
\* after the step what it was before it.
C25_NoOverwriteWithoutArchive ==
    ArchiveInsertFailed
        => (1 \in DOMAIN tgt.core_configs /\ tgt.core_configs[1] = pre.core_configs[1])

C27_PlaceholderConfig ==
    (variant = "main" /\ last.op = "ensure_default_core_config" /\ last.out = "ok"
       /\ 1 \notin DOMAIN pre.core_configs)
        => /\ 1 \in DOMAIN tgt.core_configs
           /\ LET cfg == tgt.core_configs[1].config.json
              IN /\ cfg.inbounds = <<>>
                 /\ cfg.outbounds = <<"freedom", "blackhole">>
                 /\ cfg.rules = <<[ip |-> "geoip:private", outboundTag |-> "BLOCK"]>>

\* C28: in a run of the menu script, when the user step is about to start the admin
\* rows of the source are committed, when the listener step is about to start the
\* group id=1 is committed, when the node step is about to start both core-config
\* steps have run and id=1 is committed; a step starts with nothing uncommitted on
\* the connection and an entity step leaves the tables of the other entity types as
\* they were.
C28_ParentsBeforeChildren ==
    variant = "main" =>
        /\ pc = "MigrateUsers" => (CommittedStep("migrate_admins") /\ work = tgt)
        /\ pc = "MigrateListeners" => (1 \in DOMAIN tgt.groups /\ work = tgt)
        /\ pc = "MigrateNodes"
              => /\ InTrace("ensure_default_core_config") /\ InTrace("migrate_xray_config")
                 /\ 1 \in DOMAIN tgt.core_configs
                 /\ work = tgt
        /\ last.op \in EntitySteps
              => \A m \in EntitySteps \ {last.op} :
                    /\ tgt[EntityTableOf(m)] = pre[EntityTableOf(m)]
                    /\ work[EntityTableOf(m)] = pre[EntityTableOf(m)]
        /\ (last.op = "migrate_users_and_proxies" /\ last.out = "ok")
              => \A u \in DOMAIN src.users : tgt.users[u].admin_id \in DOMAIN tgt.admins
        /\ (last.op = "migrate_inbounds_and_associate" /\ last.out = "ok")
              => \A a \in tgt.inbounds_groups_association : a[2] \in DOMAIN tgt.groups

C28_Witness ==
    /\ RunOver /\ result = TRUE /\ last.op = "summary"
    /\ 2 \in DOMAIN src.users /\ 2 \in DOMAIN tgt.users
    /\ tgt.users[2] = UserValues(src, 2, tz)
    /\ tgt.nodes[2].core_config_id \in DOMAIN tgt.core_configs
    /\ <<2, 1>> \in tgt.inbounds_groups_association /\ 1 \in DOMAIN tgt.groups

\* C29: no step of a run, on the path of success, of a failing step or of an abort,
\* changes a table of the source.
C29_SourceReadOnly == [][variant = "main" => src' = src]_vars

C29_Witness ==
    /\ RunOver /\ result = FALSE
    /\ last.op = "migrate_users_and_proxies" /\ last.out = "raised"
    /\ InTrace("migrate_admins") /\ InTrace("migrate_nodes")
    /\ src = NullSettingsSource

FrameTables == {"admins", "inbounds", "hosts", "nodes", "users"}

\* from database a to database b: every row of the five entity tables whose id is
\* the id of no source row is kept as it was, and in core_configs only id=1 and the
\* archive id are changed or added
OnlyCounterpartsChanged(a, b) ==
    /\ \A t \in FrameTables :
          \A i \in DOMAIN a[t] \ DOMAIN src[t] : i \in DOMAIN b[t] /\ b[t][i] = a[t][i]
    /\ \A i \in DOMAIN a.core_configs \ {1, BackupId(1)} :
          i \in DOMAIN b.core_configs /\ b.core_configs[i] = a.core_configs[i]
    /\ DOMAIN b.core_configs \subseteq DOMAIN a.core_configs \cup {1, BackupId(1)}

\* C30: every step of a run, and every run as a whole, leaves the target rows of
\* admins, inbounds, hosts, nodes and users whose id is the id of no source row as
\* they were, and changes or adds no core_configs row but id=1 and the archive row.
C30_RowsWithoutCounterpartKept ==
    variant = "main" =>
        /\ OnlyCounterpartsChanged(pre, tgt)
        /\ OnlyCounterpartsChanged(pre, work)
        /\ \A n \in 2..Len(hist) : OnlyCounterpartsChanged(hist[n - 1].db, hist[n].db)

C30_Witness ==
    /\ RunOver /\ result = TRUE /\ Len(hist) = 2 /\ hist[1].ok = FALSE
    /\ DOMAIN src.admins = {1}
    /\ 1 \in DOMAIN hist[1].db.admins
    /\ hist[1].db.admins[1] = StaleAdmin(1) /\ tgt.admins[1] = AdminValues(src.admins[1])
    /\ 2 \in DOMAIN tgt.admins /\ tgt.admins[2] = StaleAdmin(2)
    /\ 2 \in DOMAIN tgt.users /\ tgt.users[2] = StaleUser(2)
    /\ DOMAIN hist[1].db.core_configs = {2}
    /\ DOMAIN tgt.core_configs = {1, 2, BackupId(1)}
    /\ tgt.core_configs[2] = StaleCore(2)

====
